---- MODULE Spec2Model ----
(***************************************************************************)
(* Model of src/src/tutorial2_practice.py: read_data, describe_dataframe,   *)
(* prepare_dataframe and the driver main.                                   *)
(*                                                                          *)
(* A text is a sequence of one-character strings.  A cell of a table is a   *)
(* record [k, v]: k names the kind of value and v is a tuple of integers.   *)
(*   nan    <<>>         the missing marker NaN                             *)
(*   nat    <<>>         the missing datetime NaT                           *)
(*   float  <<h>>        the float h/2 (so 2.5 is <<5>>)                    *)
(*   int    <<n>>        the integer n                                      *)
(*   text   <<d, m, y>>  the text "d/m/y" of three numeric fields           *)
(*   word   <<i>>        a text that is not of that shape (a country name)  *)
(*   date   <<y, m, d>>  a Timestamp                                        *)
(* A column is [name, dtype, vals]; a table is a sequence of columns of     *)
(* equal length.  A Python value is [kind, tabs]: None, one DataFrame, or   *)
(* the dict of DataFrames read_excel gives for sheet_name=None.             *)
(***************************************************************************)
EXTENDS Integers, Sequences, FiniteSets, TLC

VARIABLES fs, pc, env, out, exc, call

vars == <<fs, pc, env, out, exc, call>>

----------------------------------------------------------------------------
(* Bounds of the inputs.                                                    *)

\* most spaces put before and after a column label
MaxPad == 1

\* rows of an input table
MaxRows == 2

----------------------------------------------------------------------------
(* Texts: str.strip, str.lower, str.replace.                                *)

Whitespace == {" ", "\t", "\n"}

UpperCase == <<"C", "D", "E", "M", "N", "P", "S">>

LowerCase == <<"c", "d", "e", "m", "n", "p", "s">>

lower_char(c) ==
    IF \E i \in 1..Len(UpperCase) : UpperCase[i] = c
    THEN LowerCase[CHOOSE i \in 1..Len(UpperCase) : UpperCase[i] = c]
    ELSE c

str_lower(s) == [i \in 1..Len(s) |-> lower_char(s[i])]

str_strip(s) ==
    LET keep == {i \in 1..Len(s) : s[i] \notin Whitespace}
    IN  IF keep = {} THEN <<>>
        ELSE SubSeq(s, CHOOSE i \in keep : \A j \in keep : i <= j,
                       CHOOSE i \in keep : \A j \in keep : i >= j)

str_replace(s, old, new) == [i \in 1..Len(s) |-> IF s[i] = old THEN new ELSE s[i]]

\* df.columns.str.strip().str.lower().str.replace(' ', '_'), one label
clean_label_swapped(s) == str_strip(str_lower(str_replace(s, " ", "_")))

clean_label(s) == str_replace(str_lower(str_strip(s)), " ", "_")

\* npc_codes_df.columns.str.strip().str.lower(), one label
clean_code_label(s) == str_lower(str_strip(s))

----------------------------------------------------------------------------
(* The labels the code names.                                               *)

L_start == <<"s", "t", "a", "r", "t">>

L_end == <<"e", "n", "d">>

L_country == <<"c", "o", "u", "n", "t", "r", "y">>

L_Name == <<"N", "a", "m", "e">>

L_Code == <<"C", "o", "d", "e">>

columns_to_change ==
    << <<"c", "o", "u", "n", "t", "r", "i", "e", "s">>,
       <<"e", "v", "e", "n", "t", "s">>,
       <<"p", "a", "r", "t", "i", "c", "i", "p", "a", "n", "t", "s", "_", "m">>,
       <<"p", "a", "r", "t", "i", "c", "i", "p", "a", "n", "t", "s", "_", "f">>,
       <<"p", "a", "r", "t", "i", "c", "i", "p", "a", "n", "t", "s">> >>

----------------------------------------------------------------------------
(* Cells, columns, tables, Python values.                                   *)

NaN == [k |-> "nan", v |-> <<>>]

NaT == [k |-> "nat", v |-> <<>>]

CFloat(h) == [k |-> "float", v |-> <<h>>]

CInt(n) == [k |-> "int", v |-> <<n>>]

CText(d, m, y) == [k |-> "text", v |-> <<d, m, y>>]

CWord(i) == [k |-> "word", v |-> <<i>>]

CDate(y, m, d) == [k |-> "date", v |-> <<y, m, d>>]

Col(name, dtype, vals) == [name |-> name, dtype |-> dtype, vals |-> vals]

None == [kind |-> "None", tabs |-> <<>>]

DataFrame(t) == [kind |-> "DataFrame", tabs |-> <<t>>]

Dict(ts) == [kind |-> "dict", tabs |-> ts]

HasCol(t, label) == \E i \in 1..Len(t) : t[i].name = label

ColAt(t, label) == CHOOSE i \in 1..Len(t) : t[i].name = label

----------------------------------------------------------------------------
(* pd.to_datetime(column, format='%d/%m/%Y')                                *)

IsLeap(y) == (y % 4 = 0 /\ y % 100 # 0) \/ y % 400 = 0

DaysIn(m, y) ==
    IF m = 2 THEN (IF IsLeap(y) THEN 29 ELSE 28)
    ELSE IF m \in {4, 6, 9, 11} THEN 30 ELSE 31

\* whether the text d/m/y matches %d/%m/%Y and names a day of the calendar
strptime_ok(c) ==
    /\ c.k = "text"
    /\ c.v[3] >= 1 /\ c.v[3] <= 9999
    /\ c.v[2] >= 1 /\ c.v[2] <= 12
    /\ c.v[1] >= 1 /\ c.v[1] <= DaysIn(c.v[2], c.v[3])

\* the fields read as month/day/year
strptime_mdy(c) ==
    IF c.k = "nan" THEN NaT ELSE CDate(c.v[3], c.v[1], c.v[2])

strptime(c) ==
    IF c.k = "nan" THEN NaT ELSE CDate(c.v[3], c.v[2], c.v[1])

\* errors='coerce': what the call would do if it did not raise
to_datetime_coerce(col) ==
    IF col.dtype = "datetime64" THEN [ok |-> TRUE, col |-> col]
    ELSE [ok |-> TRUE,
          col |-> Col(col.name, "datetime64",
                      [i \in 1..Len(col.vals) |->
                         IF col.vals[i].k = "nan" \/ strptime_ok(col.vals[i])
                         THEN strptime(col.vals[i]) ELSE NaT])]

\* a parser that takes texts only, and so rejects a datetime64 column
to_datetime_texts_only(col) ==
    IF \A i \in 1..Len(col.vals) :
          col.vals[i].k = "nan" \/ strptime_ok(col.vals[i])
    THEN [ok |-> TRUE,
          col |-> Col(col.name, "datetime64",
                      [i \in 1..Len(col.vals) |-> strptime(col.vals[i])])]
    ELSE [ok |-> FALSE, col |-> col]

\* a datetime64 column is returned as it is; a missing value becomes NaT;
\* any other value that is not a text matching the format raises ValueError
to_datetime(col) ==
    IF col.dtype = "datetime64" THEN [ok |-> TRUE, col |-> col]
    ELSE IF \A i \in 1..Len(col.vals) :
               col.vals[i].k = "nan" \/ strptime_ok(col.vals[i])
    THEN [ok |-> TRUE,
          col |-> Col(col.name, "datetime64",
                      [i \in 1..Len(col.vals) |-> strptime(col.vals[i])])]
    ELSE [ok |-> FALSE, col |-> col]

----------------------------------------------------------------------------
(* column.fillna(0).astype(int)                                             *)

\* the value 0 in the column's own type
fillna(col, zero) ==
    Col(col.name, col.dtype,
        [i \in 1..Len(col.vals) |->
           IF col.vals[i].k = "nan"
           THEN (IF col.dtype = "float64" THEN CFloat(2 * zero) ELSE CInt(zero))
           ELSE col.vals[i]])

\* int(x) of one value: a float is truncated toward zero
int_of(c) ==
    IF c.k = "float"
    THEN (IF c.v[1] >= 0 THEN CInt(c.v[1] \div 2) ELSE CInt(-((-c.v[1]) \div 2)))
    ELSE c

\* astype(int): ValueError on a value that is no number
astype_int(col) ==
    IF \A i \in 1..Len(col.vals) : col.vals[i].k \in {"float", "int"}
    THEN [ok |-> TRUE,
          col |-> Col(col.name, "int64",
                      [i \in 1..Len(col.vals) |-> int_of(col.vals[i])])]
    ELSE [ok |-> FALSE, col |-> col]

\* a fill with 1 in place of 0
fill_cast_one(col) == astype_int(fillna(col, 1))

fill_cast(col) == astype_int(fillna(col, 0))

----------------------------------------------------------------------------
(* left.merge(right, how='left', left_on=..., right_on=...)                 *)

Indices(n) == [j \in 1..n |-> j]

\* the rows of the right table whose key equals the key of left row i
Matches(lk, rk, i) == SelectSeq(Indices(Len(rk)), LAMBDA j : rk[j] = lk[i])

RECURSIVE RowPairs(_, _, _)
\* the rows of the result, as <<left row, right row>>, 0 for no right row:
\* the left rows in their order, each once per matching right row
RowPairs(lk, rk, i) ==
    IF i > Len(lk) THEN <<>>
    ELSE LET m == Matches(lk, rk, i)
         IN  (IF m = <<>> THEN << <<i, 0>> >>
              ELSE [x \in 1..Len(m) |-> <<i, m[x]>>]) \o RowPairs(lk, rk, i + 1)

\* a label both tables hold gets the suffix _x on the left and _y on the right
Suffixed(label, other, c) ==
    IF HasCol(other, label) THEN label \o <<"_", c>> ELSE label

LeftPart(left, right, pairs) ==
    [i \in 1..Len(left) |->
       Col(Suffixed(left[i].name, right, "x"), left[i].dtype,
           [p \in 1..Len(pairs) |-> left[i].vals[pairs[p][1]]])]

\* the right columns, null on the rows without a match
RightPart(left, right, pairs) ==
    LET holes == \E p \in 1..Len(pairs) : pairs[p][2] = 0
    IN  [i \in 1..Len(right) |->
           Col(Suffixed(right[i].name, left, "y"),
               IF holes /\ right[i].dtype = "int64" THEN "float64" ELSE right[i].dtype,
               [p \in 1..Len(pairs) |->
                  IF pairs[p][2] = 0
                  THEN (IF right[i].dtype = "datetime64" THEN NaT ELSE NaN)
                  ELSE IF holes /\ right[i].vals[pairs[p][2]].k = "int"
                       THEN CFloat(2 * right[i].vals[pairs[p][2]].v[1])
                       ELSE right[i].vals[pairs[p][2]]])]

LeftJoin(left, right, left_on, right_on) ==
    LET pairs == RowPairs(left[ColAt(left, left_on)].vals,
                          right[ColAt(right, right_on)].vals, 1)
    IN  LeftPart(left, right, pairs) \o RightPart(left, right, pairs)

\* KeyError when a key is no label of its table
merge(left, right, left_on, right_on) ==
    IF HasCol(left, left_on) /\ HasCol(right, right_on)
    THEN [ok |-> TRUE, t |-> LeftJoin(left, right, left_on, right_on)]
    ELSE [ok |-> FALSE, t |-> left]

----------------------------------------------------------------------------
(* prepare_dataframe(df, npc_codes_df=None)                                 *)

\* line 71
rename_columns(t) ==
    [i \in 1..Len(t) |-> Col(clean_label(t[i].name), t[i].dtype, t[i].vals)]

\* line 88
rename_code_columns(t) ==
    [i \in 1..Len(t) |-> Col(clean_code_label(t[i].name), t[i].dtype, t[i].vals)]

\* lines 74-75 and 76-77: if label in df.columns: df[label] = pd.to_datetime(...)
parse_column(t, label) ==
    IF HasCol(t, label)
    THEN LET r == to_datetime(t[ColAt(t, label)])
         IN  [ok |-> r.ok, t |-> [t EXCEPT ![ColAt(t, label)] = r.col]]
    ELSE [ok |-> TRUE, t |-> t]

RECURSIVE fill_columns(_, _)
\* lines 82-84, from the n-th label of columns_to_change on
fill_columns(t, n) ==
    IF n > Len(columns_to_change) THEN [ok |-> TRUE, t |-> t]
    ELSE IF HasCol(t, columns_to_change[n])
    THEN LET i == ColAt(t, columns_to_change[n])
             r == fill_cast(t[i])
         IN  IF r.ok THEN fill_columns([t EXCEPT ![i] = r.col], n + 1)
             ELSE [ok |-> FALSE, t |-> t]
    ELSE fill_columns(t, n + 1)

Outcome(df, npc, ret, raised) ==
    [df |-> df, npc_codes_df |-> npc, ret |-> ret, exc |-> raised]

\* lines 87-91, on the table t that lines 71-84 left
merge_codes(t, npc) ==
    IF npc.kind = "None" THEN Outcome(DataFrame(t), npc, DataFrame(t), "none")
    ELSE IF npc.kind # "DataFrame"
    THEN Outcome(DataFrame(t), npc, None, "AttributeError")
    ELSE LET codes == rename_code_columns(npc.tabs[1])
             m == merge(t, codes, L_country, L_Name)
         IN  IF m.ok
             THEN Outcome(DataFrame(t), DataFrame(codes), DataFrame(m.t), "none")
             ELSE Outcome(DataFrame(t), DataFrame(codes), None, "KeyError")

\* The outcome of one call: the caller's two objects as the call leaves them
\* (both are changed in place, also when the call raises), the value
\* returned, and the exception raised ("none" when the call returns).
prepare_dataframe(df, npc) ==
    IF df.kind # "DataFrame" THEN Outcome(df, npc, None, "AttributeError")
    ELSE LET t1 == rename_columns(df.tabs[1])
             s == parse_column(t1, L_start)
             e == parse_column(s.t, L_end)
             f == fill_columns(e.t, 1)
         IN  IF ~s.ok THEN Outcome(DataFrame(s.t), npc, None, "ValueError")
             ELSE IF ~e.ok THEN Outcome(DataFrame(e.t), npc, None, "ValueError")
             ELSE IF ~f.ok THEN Outcome(DataFrame(f.t), npc, None, "ValueError")
             ELSE merge_codes(f.t, npc)

----------------------------------------------------------------------------
(* Files.  A file is [exists, fmt, sheets]: fmt is csv (sheets holds the    *)
(* one table of the text), xlsx (sheets holds the workbook's sheets in      *)
(* order), empty (no content) or junk (content no parser accepts).          *)

File(exists, fmt, sheets) == [exists |-> exists, fmt |-> fmt, sheets |-> sheets]

Sheet(name, tab) == [name |-> name, tab |-> tab]

\* sheet_name: None (the default), an index or a name
NoSheet == [by |-> "none", idx |-> 0, name |-> ""]

SheetIndex(i) == [by |-> "index", idx |-> i, name |-> ""]

SheetNamed(n) == [by |-> "name", idx |-> 0, name |-> n]

Raised(e) == [ok |-> FALSE, exc |-> e, val |-> None]

Read(v) == [ok |-> TRUE, exc |-> "none", val |-> v]

\* pd.read_csv(file_path)
read_csv(file) ==
    IF ~file.exists THEN Raised("FileNotFoundError")
    ELSE IF file.fmt = "empty" THEN Raised("EmptyDataError")
    ELSE IF file.fmt = "csv" THEN Read(DataFrame(file.sheets[1].tab))
    ELSE Raised("ParserError")

\* pd.read_excel(file_path, sheet_name=sheet_name): with sheet_name=None the
\* result is the dict of all the sheets
read_excel(file, sheet) ==
    IF ~file.exists THEN Raised("FileNotFoundError")
    ELSE IF file.fmt # "xlsx" THEN Raised("ValueError")
    ELSE IF sheet.by = "none"
    THEN Read(Dict([i \in 1..Len(file.sheets) |-> file.sheets[i].tab]))
    ELSE IF sheet.by = "index"
    THEN (IF sheet.idx + 1 \in 1..Len(file.sheets)
          THEN Read(DataFrame(file.sheets[sheet.idx + 1].tab))
          ELSE Raised("ValueError"))
    ELSE IF \E i \in 1..Len(file.sheets) : file.sheets[i].name = sheet.name
    THEN Read(DataFrame(file.sheets[CHOOSE i \in 1..Len(file.sheets) :
                                      file.sheets[i].name = sheet.name].tab))
    ELSE Raised("ValueError")

----------------------------------------------------------------------------
(* read_data(file_path, file_type='csv', sheet_name=None)                   *)

Result(ret, printed, raised) == [ret |-> ret, printed |-> printed, exc |-> raised]

\* lines 25-30: the message of the except clause that catches e
except_clause(e) ==
    IF e = "FileNotFoundError" THEN "File not found"
    ELSE IF e = "EmptyDataError" THEN "No data found in the file"
    ELSE "An error occured while reading the file"

\* file is what the path names when line 16 looks at it; vanished tells
\* whether it is removed before the reader opens it
read_data(file, file_type, sheet_name, vanished) ==
    LET seen == File(file.exists /\ ~vanished, file.fmt, file.sheets)
        r == IF file_type = "csv" THEN read_csv(seen) ELSE read_excel(seen, sheet_name)
    IN  IF ~file.exists
        THEN Result(None, <<"File not found. Please check the file path">>, "none")
        ELSE IF file_type \notin {"csv", "excel"} THEN Result(None, <<>>, "none")
        ELSE IF r.ok THEN Result(r.val, <<>>, "none")
        ELSE Result(None, <<except_clause(r.exc)>>, "none")

----------------------------------------------------------------------------
(* describe_dataframe(df)                                                   *)

Sections ==
    <<"Shape of DataFrame", "First 5 rows", "Last 5 rows", "Column Labels",
      "Data Types", "DataFrame Info", "info", "Descriptive Statistics">>

SkipLine == "DataFrame is None; skipping description."

\* a describer without the else branch
describe_dataframe_silent(df) ==
    IF df.kind = "None" THEN Result(None, <<>>, "none")
    ELSE IF df.kind = "DataFrame" THEN Result(None, Sections, "none")
    ELSE Result(None, <<>>, "AttributeError")

\* a dict has no attribute shape: AttributeError before anything is printed
describe_dataframe(df) ==
    IF df.kind = "None" THEN Result(None, <<SkipLine>>, "none")
    ELSE IF df.kind = "DataFrame" THEN Result(None, Sections, "none")
    ELSE Result(None, <<>>, "AttributeError")

----------------------------------------------------------------------------
(* The inputs: labels as a file may spell them, cells, columns, tables.     *)

B_Start == <<"S", "t", "a", "r", "t">>

B_END == <<"E", "N", "D", "\t">>

B_Events == <<"E", "v", "e", "n", "t", "s">>

B_PartM == <<"P", "a", "r", "t", "i", "c", "i", "p", "a", "n", "t", "s", " ", "M">>

B_Country == <<"C", "o", "u", "n", "t", "r", "y">>

Spaces(n) == [i \in 1..n |-> " "]

Padded(base) == {Spaces(a) \o base \o Spaces(z) : a \in 0..MaxPad, z \in 0..MaxPad}

France == CWord(1)

Nowhere == CWord(2)

FRA == CWord(11)

\* 29/02/2024 parses; 31/04/2024 names no day
DateCells == {NaN, CText(29, 2, 2024), CText(31, 4, 2024)}

\* -1.0, 5.0, 2.5
NumCells == {NaN, CFloat(-2), CFloat(10), CFloat(5)}

KeyCells == {France, Nowhere}

Vectors(S) == [1..MaxRows -> S]

DateColumns ==
    {Col(n, "object", v) : n \in Padded(B_Start) \cup Padded(B_END),
                           v \in Vectors(DateCells)}

NumColumns ==
    {Col(n, "float64", v) : n \in Padded(B_Events) \cup Padded(B_PartM),
                            v \in Vectors(NumCells)}
    \cup {Col(B_Events, "object", [i \in 1..MaxRows |-> France])}

KeyColumns == {Col(B_Country, "object", v) : v \in Vectors(KeyCells)}

DatePairs ==
    {<<Col(B_Start, "object", v), Col(B_END, "object", w)>> :
        v \in Vectors(DateCells), w \in Vectors(DateCells)}

\* two columns under every spelling of their labels, the values fixed
LabelPairs ==
    {<<Col(n, "object", [i \in 1..MaxRows |-> CText(29, 2, 2024)]),
       Col(m, "float64", [i \in 1..MaxRows |-> NaN])>> :
        n \in Padded(B_Start), m \in Padded(B_PartM)}

\* the tables read from the events file
EventTables ==
    {<<c>> : c \in DateColumns \cup NumColumns \cup KeyColumns}
    \cup DatePairs \cup LabelPairs

Unpadded == {c \in DateColumns \cup NumColumns :
                c.name \in {B_Start, B_END, B_Events, B_PartM}}

\* the tables handed to prepare_dataframe
Tables ==
    EventTables
    \cup {<<c, k>> : c \in Unpadded, k \in KeyColumns}
    \cup {<<k, c>> : c \in Unpadded, k \in KeyColumns}

\* code tables: Name = [France], and Name = [France, France] under padded labels
Lookups ==
    { <<Col(L_Code, "object", <<FRA>>), Col(L_Name, "object", <<France>>)>>,
      <<Col(<<" ">> \o L_Name, "object", <<France, France>>),
        Col(L_Code \o <<" ">>, "object", <<FRA, FRA>>)>> }

----------------------------------------------------------------------------
(* State.                                                                   *)
(*   fs    the files, by path                                               *)
(*   pc    the statement of main about to run (0 outside main)              *)
(*   env   the caller's variables, each a Python value                      *)
(*   out   what has been printed                                            *)
(*   exc   the exception that ended the run, "none" while it runs           *)
(*   call  the latest call: function, arguments as passed, value returned,  *)
(*         exception raised, lines printed                                  *)

NoArgs == [path |-> "", file_type |-> "", sheet_name |-> NoSheet, vanished |-> FALSE]

Args(path, file_type, sheet_name, vanished) ==
    [path |-> path, file_type |-> file_type, sheet_name |-> sheet_name,
     vanished |-> vanished]

Call(fn, args, df, npc, r, again) ==
    [fn |-> fn, args |-> args, df |-> df, npc |-> npc, ret |-> r.ret,
     raised |-> r.exc, printed |-> r.printed, again |-> again]

NoCall == Call("none", NoArgs, None, None, Result(None, <<>>, "none"), FALSE)

----------------------------------------------------------------------------
(* prepare_dataframe called on tables of every shape, with and without a    *)
(* code table, and called again on the object a call has left.              *)

PreparerInit ==
    /\ fs = <<>>
    /\ pc = 0
    /\ env \in [df : {None} \cup {DataFrame(t) : t \in Tables},
                npc_codes_df : {None} \cup {DataFrame(t) : t \in Lookups}]
    /\ out = <<>>
    /\ exc = "none"
    /\ call = NoCall

\* whether env.df is the object a call without a code table has returned
Prepared == call.fn = "prepare_dataframe" /\ call.raised = "none" /\ call.ret = env.df

\* prepare_dataframe(df, npc_codes_df=npc_codes_df), as on line 115
PrepareWithCodes ==
    /\ env.npc_codes_df.kind # "None"
    /\ LET o == prepare_dataframe(env.df, env.npc_codes_df)
       IN  /\ env' = [df |-> o.df, npc_codes_df |-> o.npc_codes_df]
           /\ call' = Call("prepare_dataframe", NoArgs, env.df, env.npc_codes_df,
                           Result(o.ret, <<>>, o.exc), Prepared)
    /\ UNCHANGED <<fs, pc, out, exc>>

\* prepare_dataframe(df), as on lines 121, 128 and 135
PrepareAlone ==
    /\ LET o == prepare_dataframe(env.df, None)
       IN  /\ env' = [df |-> o.df, npc_codes_df |-> env.npc_codes_df]
           /\ call' = Call("prepare_dataframe", NoArgs, env.df, None,
                           Result(o.ret, <<>>, o.exc), Prepared)
    /\ UNCHANGED <<fs, pc, out, exc>>

PreparerNext == PrepareWithCodes \/ PrepareAlone

PreparerSpec == PreparerInit /\ [][PreparerNext]_vars

----------------------------------------------------------------------------
(* What the claims about prepare_dataframe speak of.                        *)

InSet(label) == \E n \in 1..Len(columns_to_change) : columns_to_change[n] = label

\* the latest call is a call of prepare_dataframe on a table
CalledOnTable == call.fn = "prepare_dataframe" /\ call.df.kind = "DataFrame"

\* ... and it has returned a table
ReturnedTable == CalledOnTable /\ call.raised = "none" /\ call.ret.kind = "DataFrame"

Given == call.df.tabs[1]

Got == call.ret.tabs[1]

Missing(c) == c.k \in {"nan", "nat"}

\* the number a numeric cell holds, in halves
Halves(c) == IF c.k = "int" THEN 2 * c.v[1] ELSE c.v[1]

\* r is s without its surrounding whitespace, in lower case, each space
\* inside it replaced by an underscore
Normalised(s, r) ==
    \E a \in 0..Len(s) : \E z \in 0..(Len(s) - a) :
       /\ \A i \in 1..a : s[i] \in Whitespace
       /\ \A i \in (Len(s) - z + 1)..Len(s) : s[i] \in Whitespace
       /\ a + z < Len(s) => s[a + 1] \notin Whitespace /\ s[Len(s) - z] \notin Whitespace
       /\ Len(r) = Len(s) - a - z
       /\ \A i \in 1..Len(r) :
             IF s[a + i] = " " THEN r[i] = "_"
             ELSE IF \E u \in 1..Len(UpperCase) : UpperCase[u] = s[a + i]
             THEN \E u \in 1..Len(UpperCase) :
                     UpperCase[u] = s[a + i] /\ r[i] = LowerCase[u]
             ELSE r[i] = s[a + i]

\* C4: after a call of prepare_dataframe on a table, the caller's table has
\* as many columns as before, in the same order, and the label of each is
\* the old label trimmed of surrounding whitespace, lower-cased, with every
\* interior space replaced by an underscore.
C4_LabelsNormalised ==
    CalledOnTable =>
       /\ env.df.kind = "DataFrame"
       /\ Len(env.df.tabs[1]) = Len(Given)
       /\ \A i \in 1..Len(Given) : Normalised(Given[i].name, env.df.tabs[1][i].name)
       /\ (ReturnedTable => \A i \in 1..Len(Given) : Got[i].name = env.df.tabs[1][i].name)

\* "Start " has become "start", beside a label with an interior space
C4_Witness ==
    /\ ReturnedTable
    /\ Len(Given) = 2
    /\ Given[1].name = B_Start \o <<" ">>
    /\ Got[1].name = L_start
    /\ Given[2].name = <<" ">> \o B_PartM
    /\ Got[2].name = columns_to_change[3]

\* the cell a column of the fixed set holds where the input held c
CastOf(c) ==
    IF Missing(c) THEN CInt(0)
    ELSE IF Halves(c) >= 0 THEN CInt(Halves(c) \div 2)
    ELSE CInt(-((-Halves(c)) \div 2))

SetColumnCast(given, got) ==
    /\ got.dtype = "int64"
    /\ Len(got.vals) = Len(given.vals)
    /\ \A r \in 1..Len(given.vals) : got.vals[r] = CastOf(given.vals[r])

\* C3 as amended: when prepare_dataframe returns, every column whose
\* normalised label is in columns_to_change has type int64, holds 0 where the
\* input was missing and elsewhere the input number truncated toward zero (an
\* integer value is kept); every other column except start and end keeps its
\* type and values.
C3_FillCast ==
    ReturnedTable =>
       \A i \in 1..Len(Given) :
          IF InSet(Got[i].name) THEN SetColumnCast(Given[i], Got[i])
          ELSE Got[i].name \notin {L_start, L_end} =>
                  Got[i].dtype = Given[i].dtype /\ Got[i].vals = Given[i].vals

\* participants_m = [NaN, 5.0] has become [0, 5], beside a country column
C3_Witness ==
    /\ ReturnedTable
    /\ Len(Given) = 2
    /\ Got[1].name = columns_to_change[3]
    /\ Given[1].vals[1] = NaN /\ Given[1].vals[2] = CFloat(10)
    /\ Got[1].vals[1] = CInt(0) /\ Got[1].vals[2] = CInt(5)
    /\ Got[2].name = L_country /\ Got[2].vals = Given[2].vals

\* C3 as stated: ... and every column outside the set keeps its values (a
\* missing value that stays missing counts as kept).
C3_AsStated ==
    ReturnedTable =>
       \A i \in 1..Len(Given) :
          IF InSet(Got[i].name)
          THEN /\ Got[i].dtype = "int64"
               /\ \A r \in 1..Len(Given[i].vals) :
                     /\ Missing(Given[i].vals[r]) => Got[i].vals[r] = CInt(0)
                     /\ ~Missing(Given[i].vals[r]) /\ Halves(Given[i].vals[r]) % 2 = 0
                           => Got[i].vals[r] = CInt(Halves(Given[i].vals[r]) \div 2)
          ELSE \A r \in 1..Len(Given[i].vals) :
                  \/ Got[i].vals[r] = Given[i].vals[r]
                  \/ Missing(Got[i].vals[r]) /\ Missing(Given[i].vals[r])

\* C5 as amended: when prepare_dataframe returns, a start or end column is of
\* type datetime64 and holds, for each input text d/m/y, the date y-m-d of the
\* calendar, and the missing value NaT where the input was missing; a column
\* of the fixed set holds integers, 0 where the input was missing and a
\* non-negative one wherever the input was not negative.
C5_Prepared ==
    ReturnedTable =>
       \A i \in 1..Len(Given) : \A r \in 1..Len(Given[i].vals) :
          LET c == Given[i].vals[r]
              d == Got[i].vals[r]
          IN  /\ Got[i].name \in {L_start, L_end} =>
                    /\ Got[i].dtype = "datetime64"
                    /\ Missing(c) => d = NaT
                    /\ c.k = "text" =>
                          /\ d = CDate(c.v[3], c.v[2], c.v[1])
                          /\ d.v[2] \in 1..12 /\ d.v[3] \in 1..31
                    /\ c.k = "date" => d = c
                    /\ d.k \in {"date", "nat"}
              /\ InSet(Got[i].name) =>
                    /\ d.k = "int"
                    /\ Missing(c) => d.v[1] = 0
                    /\ ~Missing(c) /\ Halves(c) >= 0 => d.v[1] >= 0

\* a start column [29/02/2024, NaN] has become [2024-02-29, NaT]
C5_Witness ==
    /\ ReturnedTable
    /\ Got[1].name = L_start
    /\ Given[1].vals[1] = CText(29, 2, 2024) /\ Got[1].vals[1] = CDate(2024, 2, 29)
    /\ Given[1].vals[2] = NaN /\ Got[1].vals[2] = NaT

\* C5 as stated: every value of a start or end column is a date value
\* (the NaT of a missing input is let pass here) and every value of a column
\* of the fixed set is a non-negative integer.
C5_AsStated ==
    ReturnedTable =>
       \A i \in 1..Len(Given) : \A r \in 1..Len(Got[i].vals) :
          /\ Got[i].name \in {L_start, L_end} =>
                Got[i].vals[r].k = "date" \/ Missing(Given[i].vals[r])
          /\ InSet(Got[i].name) => Got[i].vals[r].k = "int" /\ Got[i].vals[r].v[1] >= 0

\* C10: a call without a code table on the table that an earlier such call
\* has returned returns that table again, with every label, type and value
\* as it was.
C10_Idempotent ==
    (CalledOnTable /\ call.again /\ call.npc.kind = "None") =>
       /\ call.raised = "none"
       /\ call.ret = call.df
       /\ env.df = call.df

\* the second call met a datetime64 column holding NaT beside a second column
C10_Witness ==
    /\ CalledOnTable /\ call.again /\ call.npc.kind = "None"
    /\ call.raised = "none"
    /\ Len(Given) = 2
    /\ \E i \in 1..Len(Given) : Given[i].dtype = "datetime64" /\ Given[i].vals[1] = NaT

\* C2: with a code table whose labels are Code and Name, and a main table
\* that has a country column and passes lines 71-84, prepare_dataframe
\* returns the left join of the main table with the code table on
\* country = Name.
C2_LeftJoinReturned ==
    (/\ CalledOnTable
     /\ call.npc.kind = "DataFrame"
     /\ HasCol(call.npc.tabs[1], L_Name)
     /\ HasCol(rename_columns(Given), L_country)
     /\ prepare_dataframe(call.df, None).exc = "none")
    => /\ call.raised = "none"
       /\ call.ret = DataFrame(LeftJoin(env.df.tabs[1], call.npc.tabs[1],
                                        L_country, L_Name))

----------------------------------------------------------------------------
(* read_data called with every path, type flag and sheet identifier, and    *)
(* describe_dataframe called on what it returned.                           *)

SampleEvents ==
    <<Col(B_Start \o <<" ">>, "object", [i \in 1..MaxRows |-> CText(29, 2, 2024)]),
      Col(B_Country, "object", [i \in 1..MaxRows |-> France])>>

SampleMedals ==
    <<Col(B_Country, "object", [i \in 1..MaxRows |-> Nowhere]),
      Col(B_Events, "float64", [i \in 1..MaxRows |-> NaN])>>

SampleCodes == <<Col(L_Code, "object", <<FRA>>), Col(L_Name, "object", <<France>>)>>

Workbook ==
    File(TRUE, "xlsx", <<Sheet("events", SampleEvents),
                         Sheet("medal_standings", SampleMedals)>>)

Disk ==
    [p \in {"events.csv", "empty.csv", "junk.bin", "all.xlsx", "absent.csv",
            "absent.xlsx"} |->
       CASE p = "events.csv" -> File(TRUE, "csv", <<Sheet("", SampleEvents)>>)
         [] p = "empty.csv" -> File(TRUE, "empty", <<>>)
         [] p = "junk.bin" -> File(TRUE, "junk", <<>>)
         [] p = "all.xlsx" -> Workbook
         [] p = "absent.csv" -> File(FALSE, "csv", <<>>)
         [] OTHER -> File(FALSE, "xlsx", <<>>)]

FileTypes == {"csv", "excel", "json"}

SheetNames ==
    {NoSheet, SheetIndex(0), SheetIndex(1), SheetIndex(2),
     SheetNamed("medal_standings"), SheetNamed("no_such_sheet")}

LoaderInit ==
    /\ fs = Disk
    /\ pc = 0
    /\ env = [df |-> None, npc_codes_df |-> None]
    /\ out = <<>>
    /\ exc = "none"
    /\ call = NoCall

\* df = read_data(file_path, file_type, sheet_name)
Load ==
    /\ call.fn = "none"
    /\ \E path \in DOMAIN fs, file_type \in FileTypes, sheet_name \in SheetNames,
          vanished \in BOOLEAN :
          /\ vanished => fs[path].exists
          /\ LET r == read_data(fs[path], file_type, sheet_name, vanished)
             IN  /\ env' = [env EXCEPT !.df = r.ret]
                 /\ out' = out \o r.printed
                 /\ exc' = r.exc
                 /\ call' = Call("read_data",
                                 Args(path, file_type, sheet_name, vanished),
                                 None, None, r, FALSE)
          /\ fs' = IF vanished THEN [fs EXCEPT ![path].exists = FALSE] ELSE fs
    /\ pc' = pc

\* describe_dataframe(df)
Describe ==
    /\ call.fn = "read_data"
    /\ exc = "none"
    /\ LET r == describe_dataframe(env.df)
       IN  /\ out' = out \o r.printed
           /\ exc' = r.exc
           /\ call' = Call("describe_dataframe", NoArgs, env.df, None, r, FALSE)
    /\ UNCHANGED <<fs, pc, env>>

LoaderNext == Load \/ Describe

LoaderSpec == LoaderInit /\ [][LoaderNext]_vars

\* C1: read_data called with a type flag csv or excel raises nothing and
\* returns None or one DataFrame, None when the path names no file.
C1_NoneOrTable ==
    (call.fn = "read_data" /\ call.args.file_type \in {"csv", "excel"}) =>
       /\ call.raised = "none"
       /\ call.ret.kind \in {"None", "DataFrame"}
       /\ ~Disk[call.args.path].exists => call.ret = None

\* C7: describe_dataframe called with None prints the skip line, that line
\* alone, and none of the sections; it raises nothing.
C7_SkipLineOnly ==
    (call.fn = "describe_dataframe" /\ call.df = None) =>
       /\ call.raised = "none"
       /\ call.printed = <<SkipLine>>
       /\ Len(out) >= 1 /\ out[Len(out)] = SkipLine
       /\ \A i \in 1..Len(out) : \A j \in 1..Len(Sections) : out[i] # Sections[j]

\* the loader has reported a missing file and the describer has skipped
C7_Witness ==
    /\ call.fn = "describe_dataframe" /\ call.df = None
    /\ out = <<"File not found. Please check the file path", SkipLine>>

----------------------------------------------------------------------------
(* main(): the statements of lines 103-135 in order.  A statement that      *)
(* raises ends the run: exc is set, pc stays, and nothing is enabled.       *)

CsvPath == "src/tutorialpkg/data/paralympics_events_raw.csv"

ExcelPath == "src/tutorialpkg/data/paralympics_all_raw.xlsx"

CodesPath == "src/tutorialpkg/data/npc_codes.csv"

Stmt(op, tgt, arg, path, file_type, sheet_name, codes, show) ==
    [op |-> op, tgt |-> tgt, arg |-> arg, path |-> path, file_type |-> file_type,
     sheet_name |-> sheet_name, codes |-> codes, show |-> show]

ReadStmt(tgt, path, file_type, sheet_name) ==
    Stmt("read_data", tgt, "", path, file_type, sheet_name, FALSE, FALSE)

DescribeStmt(arg) == Stmt("describe_dataframe", "", arg, "", "", NoSheet, FALSE, FALSE)

PrepareStmt(tgt, arg, codes, show) ==
    Stmt("prepare_dataframe", tgt, arg, "", "", NoSheet, codes, show)

main ==
    << ReadStmt("events_csv_df", CsvPath, "csv", NoSheet),
       DescribeStmt("events_csv_df"),
       Stmt("read_csv", "npc_codes_df", "", CodesPath, "csv", NoSheet, FALSE, FALSE),
       PrepareStmt("prepared_events_df", "events_csv_df", TRUE, TRUE),
       PrepareStmt("prepared_events_csv_df", "events_csv_df", FALSE, FALSE),
       ReadStmt("events_excel_df", ExcelPath, "excel", SheetIndex(0)),
       DescribeStmt("events_excel_df"),
       PrepareStmt("prepared_events_excel_df", "events_excel_df", FALSE, FALSE),
       ReadStmt("medal_standings_df", ExcelPath, "excel", SheetNamed("medal_standings")),
       DescribeStmt("medal_standings_df"),
       PrepareStmt("prepared_medal_standings_df", "medal_standings_df", FALSE, FALSE) >>

\* a variable of main not assigned yet
Unbound == [kind |-> "unbound", tabs |-> <<>>]

Locals ==
    {"events_csv_df", "npc_codes_df", "prepared_events_df", "prepared_events_csv_df",
     "events_excel_df", "prepared_events_excel_df", "medal_standings_df",
     "prepared_medal_standings_df"}

\* lines 107-112: pd.read_csv(..., usecols=['Code', 'Name'], ...), uncaught
read_codes(file) ==
    LET r == read_csv(file)
    IN  IF ~r.ok THEN r
        ELSE IF HasCol(r.val.tabs[1], L_Code) /\ HasCol(r.val.tabs[1], L_Name)
        THEN Read(DataFrame(SelectSeq(r.val.tabs[1],
                                      LAMBDA c : c.name \in {L_Code, L_Name})))
        ELSE Raised("ValueError")

\* line 118: print(prepared_events_df[['country', 'Code', 'Name']])
show_codes(df) ==
    IF df.kind # "DataFrame" THEN Result(None, <<>>, "TypeError")
    ELSE IF \A l \in {L_country, L_Code, L_Name} : HasCol(df.tabs[1], l)
    THEN Result(None, <<"country Code Name">>, "none")
    ELSE Result(None, <<>>, "KeyError")

CodeFiles ==
    { File(FALSE, "csv", <<>>),
      File(TRUE, "csv", <<Sheet("", SampleCodes)>>),
      File(TRUE, "csv", <<Sheet("", <<Col(L_Code, "object", <<FRA>>)>>)>>) }

EventFiles ==
    {File(FALSE, "csv", <<>>), File(TRUE, "empty", <<>>), File(TRUE, "junk", <<>>)}
    \cup {File(TRUE, "csv", <<Sheet("", t)>>) : t \in EventTables}

Init ==
    /\ \E e \in EventFiles, c \in CodeFiles, x \in {File(FALSE, "xlsx", <<>>), Workbook} :
          fs = [p \in {CsvPath, CodesPath, ExcelPath} |->
                  IF p = CsvPath THEN e ELSE IF p = CodesPath THEN c ELSE x]
    /\ pc = 1
    /\ env = [v \in Locals |-> Unbound]
    /\ out = <<>>
    /\ exc = "none"
    /\ call = NoCall

Running == exc = "none" /\ pc \in 1..Len(main)

\* lines 103, 124, 131
MainRead ==
    /\ Running /\ main[pc].op = "read_data"
    /\ \E vanished \in BOOLEAN :
          /\ vanished => fs[main[pc].path].exists
          /\ LET r == read_data(fs[main[pc].path], main[pc].file_type,
                                main[pc].sheet_name, vanished)
             IN  /\ env' = [env EXCEPT ![main[pc].tgt] = r.ret]
                 /\ out' = out \o r.printed
                 /\ exc' = r.exc
                 /\ pc' = IF r.exc = "none" THEN pc + 1 ELSE pc
                 /\ call' = Call("read_data",
                                 Args(main[pc].path, main[pc].file_type,
                                      main[pc].sheet_name, vanished),
                                 None, None, r, FALSE)
          /\ fs' = IF vanished THEN [fs EXCEPT ![main[pc].path].exists = FALSE] ELSE fs

\* lines 104, 125, 132
MainDescribe ==
    /\ Running /\ main[pc].op = "describe_dataframe"
    /\ LET r == describe_dataframe(env[main[pc].arg])
       IN  /\ out' = out \o r.printed
           /\ exc' = r.exc
           /\ pc' = IF r.exc = "none" THEN pc + 1 ELSE pc
           /\ call' = Call("describe_dataframe", NoArgs, env[main[pc].arg], None, r, FALSE)
    /\ UNCHANGED <<fs, env>>

\* lines 107-112
MainReadCodes ==
    /\ Running /\ main[pc].op = "read_csv"
    /\ LET r == read_codes(fs[main[pc].path])
       IN  /\ env' = IF r.ok THEN [env EXCEPT ![main[pc].tgt] = r.val] ELSE env
           /\ exc' = r.exc
           /\ pc' = IF r.ok THEN pc + 1 ELSE pc
           /\ call' = Call("read_csv", Args(main[pc].path, "csv", NoSheet, FALSE),
                           None, None, Result(r.val, <<>>, r.exc), FALSE)
    /\ UNCHANGED <<fs, out>>

\* lines 115-118, 121, 128, 135: the call changes its arguments in place,
\* binds the target when it returns, and line 118 then shows three columns
MainPrepare ==
    /\ Running /\ main[pc].op = "prepare_dataframe"
    /\ LET s == main[pc]
           npc == IF s.codes THEN env.npc_codes_df ELSE None
           o == prepare_dataframe(env[s.arg], npc)
           shown == IF o.exc = "none" /\ s.show THEN show_codes(o.ret)
                    ELSE Result(None, <<>>, o.exc)
           after == [v \in Locals |->
                       IF v = s.tgt /\ o.exc = "none" THEN o.ret
                       ELSE IF v = s.arg THEN o.df
                       ELSE IF v = "npc_codes_df" /\ s.codes THEN o.npc_codes_df
                       ELSE env[v]]
       IN  /\ env' = after
           /\ out' = out \o shown.printed
           /\ exc' = shown.exc
           /\ pc' = IF shown.exc = "none" THEN pc + 1 ELSE pc
           /\ call' = Call("prepare_dataframe", NoArgs, env[s.arg], npc,
                           Result(o.ret, <<>>, o.exc), FALSE)
    /\ fs' = fs

Next == MainRead \/ MainDescribe \/ MainReadCodes \/ MainPrepare

Spec == Init /\ [][Next]_vars

----------------------------------------------------------------------------
(* What the claims about main speak of.                                     *)

IsDateLabel(label) == Normalised(label, L_start) \/ Normalised(label, L_end)

\* a start or end column of t holds a value that is neither missing nor a
\* text that parses under %d/%m/%Y
HasBadDate(t) ==
    \E i \in 1..Len(t) :
       /\ IsDateLabel(t[i].name)
       /\ t[i].dtype # "datetime64"
       /\ \E r \in 1..Len(t[i].vals) :
             ~Missing(t[i].vals[r]) /\ ~strptime_ok(t[i].vals[r])

\* C6: when main calls prepare_dataframe on a table whose start or end column
\* holds a value that does not parse, the call returns no table, the
\* ValueError leaves main uncaught, the target stays unassigned and no
\* further statement runs.
C6_BadDateEndsRun ==
    (call.fn = "prepare_dataframe" /\ call.df.kind = "DataFrame"
        /\ HasBadDate(call.df.tabs[1])) =>
       /\ call.raised = "ValueError"
       /\ call.ret = None
       /\ exc = "ValueError"
       /\ pc \in 1..Len(main) /\ env[main[pc].tgt] = Unbound
       /\ ~ENABLED Next

\* line 115 has met 31/04/2024 in the second row of a column labelled " Start"
C6_Witness ==
    /\ call.fn = "prepare_dataframe" /\ call.df.kind = "DataFrame"
    /\ call.df.tabs[1][1].name = <<" ">> \o B_Start
    /\ call.df.tabs[1][1].vals[1] = CText(29, 2, 2024)
    /\ call.df.tabs[1][1].vals[MaxRows] = CText(31, 4, 2024)
    /\ exc = "ValueError" /\ pc = 4

CodesReadable == read_codes(fs[CodesPath]).ok

\* read_data has returned None to main
LoaderFailed == \E v \in Locals : env[v] = None

\* C8: once a read_data call of main has returned None, a diagnostic has been
\* printed, the describer prints its skip notice, and, the code file being
\* readable, the run is not ended by an exception.
C8_LoaderFailureContinues ==
    LoaderFailed =>
       /\ Len(out) >= 1
       /\ (pc > 2 => \E i \in 1..Len(out) : out[i] = SkipLine)
       /\ (CodesReadable => exc = "none")

\* every file is present and parses, the events table has a country column
\* and passes lines 71-84, and so do the two sheets
WellFormed ==
    /\ fs[CsvPath].exists /\ fs[CsvPath].fmt = "csv"
    /\ HasCol(rename_columns(fs[CsvPath].sheets[1].tab), L_country)
    /\ prepare_dataframe(DataFrame(fs[CsvPath].sheets[1].tab), None).exc = "none"
    /\ CodesReadable
    /\ fs[ExcelPath] = Workbook
    /\ \A i \in 1..Len(Workbook.sheets) :
          prepare_dataframe(DataFrame(Workbook.sheets[i].tab), None).exc = "none"

\* C9: with every input present and well-formed the run is not ended by an
\* exception, and when it is over the loader, the describer and the preparer
\* have run for the three inputs.
C9_WellFormedRunEnds ==
    WellFormed =>
       /\ exc = "none"
       /\ pc > Len(main) =>
             \A v \in Locals : env[v].kind = "DataFrame"

====
